---- MODULE Spec2Model ----
(***************************************************************************)
(* purplex/parse.py: the table compiler ParserBase.make_tables and the     *)
(* shift-reduce engine Parser.parse, over the LR(1) automaton of a small   *)
(* family of grammars.                                                     *)
(***************************************************************************)
EXTENDS Integers, Sequences, FiniteSets, TLC

\* ------------------------------------------------------------------------
\* Bounds of the model.
\* ------------------------------------------------------------------------

\* Longest token sequence the lexer yields for one parse call.
MaxLen == 3

\* ------------------------------------------------------------------------
\* Grammar model (purplex.grammar: Grammar, Production, END_OF_INPUT).
\* ------------------------------------------------------------------------

END_OF_INPUT == "<$>"

\* Production(rule, func): lhs, rhs and the handler the rule is attached to.
Production(lhs, rhs, func) == [lhs |-> lhs, rhs |-> rhs, func |-> func]

\* The synthetic augmenting production S' -> S.
Augment(start) == Production("<S'>", <<start>>, "<none>")

\* Grammar(terminals, productions, start).
Grammar(terminals, productions, start) ==
    [terminals    |-> terminals,
     nonterminals |-> {p.lhs : p \in productions},
     productions  |-> productions,
     start        |-> Augment(start)]

\* S : A a ; A : ; A : a      (shift/reduce conflict on a, epsilon rule)
GrammarSR ==
    Grammar({"a"},
            {Production("S", <<"A", "a">>, "f_S"),
             Production("A", <<>>, "f_empty"),
             Production("A", <<"a">>, "f_A")},
            "S")

\* S : a (handler f_1) ; S : a (handler f_2)      (reduce/reduce conflict)
GrammarRR ==
    Grammar({"a"},
            {Production("S", <<"a">>, "f_1"),
             Production("S", <<"a">>, "f_2")},
            "S")

\* S : A b ; A : ; A : a      (conflict free, two terminals, epsilon rule)
GrammarOpt ==
    Grammar({"a", "b"},
            {Production("S", <<"A", "b">>, "f_S"),
             Production("A", <<>>, "f_empty"),
             Production("A", <<"a">>, "f_A")},
            "S")

\* S : S a      (no production of S derives a terminal string)
GrammarLoop ==
    Grammar({"a"},
            {Production("S", <<"S", "a">>, "f_S")},
            "S")

\* S : a A ; A : ; A : b      (reduces above a state other than the initial one)
GrammarNest ==
    Grammar({"a", "b"},
            {Production("S", <<"a", "A">>, "f_S"),
             Production("A", <<>>, "f_empty"),
             Production("A", <<"b">>, "f_A")},
            "S")

Grammars == <<GrammarSR, GrammarRR, GrammarOpt, GrammarLoop, GrammarNest>>

\* ------------------------------------------------------------------------
\* LR(1) automaton (purplex.grammar: Grammar.closures).
\* ------------------------------------------------------------------------

\* An item: a production, the dot position and one lookahead.
Item(production, pos, lookahead) ==
    [production |-> production, pos |-> pos, lookahead |-> lookahead]

at_end(rule) == rule.pos = Len(rule.production.rhs)

\* rule.rhs[rule.pos]: the symbol after the dot (positions count from 0).
SymbolAtDot(rule) == rule.production.rhs[rule.pos + 1]

RECURSIVE NullableFix(_, _)
NullableFix(gr, N) ==
    LET N2 == N \cup {p.lhs : p \in {q \in gr.productions :
                          \A i \in 1..Len(q.rhs) : q.rhs[i] \in N}}
    IN  IF N2 = N THEN N ELSE NullableFix(gr, N2)

Nullable(gr) == NullableFix(gr, {})

RECURSIVE FirstOfSymbol(_, _, _)
RECURSIVE FirstOfSeq(_, _, _)
\* Terminals that can begin a string derived from symbol X.
FirstOfSymbol(gr, X, seen) ==
    IF X \notin gr.nonterminals THEN {X}
    ELSE IF X \in seen THEN {}
    ELSE UNION {FirstOfSeq(gr, p.rhs, seen \cup {X}) :
                    p \in {q \in gr.productions : q.lhs = X}}
\* Terminals that can begin a string derived from the symbol sequence s.
FirstOfSeq(gr, s, seen) ==
    IF s = <<>> THEN {}
    ELSE FirstOfSymbol(gr, s[1], seen)
         \cup (IF s[1] \in Nullable(gr)
               THEN FirstOfSeq(gr, Tail(s), seen) ELSE {})

\* Lookaheads of the items added for the nonterminal after the dot of rule.
Lookaheads(gr, rule) ==
    LET rhs  == rule.production.rhs
        rest == SubSeq(rhs, rule.pos + 2, Len(rhs))
    IN  FirstOfSeq(gr, rest, {})
        \cup (IF \A i \in 1..Len(rest) : rest[i] \in Nullable(gr)
              THEN {rule.lookahead} ELSE {})

RECURSIVE Closure(_, _)
\* Fixed point of the expansion of the items whose dot precedes a nonterminal.
Closure(gr, items) ==
    LET added == UNION {
            {Item(p, 0, t) : p \in {q \in gr.productions :
                                        q.lhs = SymbolAtDot(rule)},
                             t \in Lookaheads(gr, rule)} :
            rule \in {r \in items : ~at_end(r)
                                    /\ SymbolAtDot(r) \in gr.nonterminals}}
        next == items \cup added
    IN  IF next = items THEN items ELSE Closure(gr, next)

InitialClosure(gr) == Closure(gr, {Item(gr.start, 0, END_OF_INPUT)})

\* The items of closure advanced over symbol (empty: no edge).
Advance(closure, symbol) ==
    {Item(r.production, r.pos + 1, r.lookahead) :
        r \in {q \in closure : ~at_end(q) /\ SymbolAtDot(q) = symbol}}

GotoSymbols(closure) == {SymbolAtDot(r) : r \in {q \in closure : ~at_end(q)}}

GotoOf(gr, closure, symbol) == Closure(gr, Advance(closure, symbol))

RECURSIVE Reachable(_, _)
Reachable(gr, found) ==
    LET targets == UNION {{GotoOf(gr, c, X) : X \in GotoSymbols(c)} :
                              c \in found}
        next    == found \cup targets
    IN  IF next = found THEN found ELSE Reachable(gr, next)

\* grammar.closures(): (initial, closures, goto).
closures(gr) ==
    LET initial == InitialClosure(gr)
        all     == Reachable(gr, {initial})
    IN  [initial  |-> initial,
         closures |-> all,
         goto     |-> [c \in all |->
                        [X \in GotoSymbols(c) |-> GotoOf(gr, c, X)]]]

\* The automaton of every grammar of the family, built once.
Automata == [i \in DOMAIN Grammars |-> closures(Grammars[i])]

\* ------------------------------------------------------------------------
\* State.
\* ------------------------------------------------------------------------

VARIABLES
    g,              \* index of the class body (Declarations); for the first
                    \* Len(Grammars) of them, of its grammar (Grammars)
    pc,             \* "body" | "__new__" | "failed" | "make_tables" |
                    \* "defined" | "parse" | "done"
    caller,         \* who called make_tables: "__new__" | "direct"
    \* make_tables locals
    labels,         \* closure -> state id
    mt_ACTION,      \* the ACTION defaultdict being filled
    mt_GOTO,        \* the GOTO defaultdict being filled
    todo,           \* closures the loop of line 98 has not visited yet
    writes,         \* label -> the rules that stored an action, in loop order
    returned,       \* the tuples make_tables has returned so far
    \* class attributes set by ParserBase.__new__
    cls_INITIAL_STATE, cls_ACTION, cls_GOTO,
    \* Parser.parse locals
    raw,            \* the tokens the lexer yields for this call
    tokens,         \* what the iterator of line 135 has not yet yielded
    token,          \* the current lookahead
    stack,          \* frames <<state, symbol, value>>
    shifted,        \* the tokens pushed by shift steps, in order
    call,           \* the handler invocations of this call, in order
    outcome,        \* how the call ended
    \* a second call of parse on the same class, running at the same time
    other,          \* its locals: [pc, raw, tokens, token, stack, shifted,
                    \*              call, outcome]
    o_before,       \* the rows of ACTION and GOTO present when it started
    o_inserted,     \* the rows its own lookups have inserted since
    o_foreign,      \* the rows it has read that the first call has inserted
                    \* since
    \* a handler function being decorated
    func_productions,   \* func.productions
    expansion           \* the decorator applied last and the rules it made

mt_vars    == <<labels, mt_ACTION, mt_GOTO, todo, writes>>
cls_vars   == <<cls_INITIAL_STATE, cls_ACTION, cls_GOTO>>
parse_vars == <<raw, tokens, token, stack, shifted, call, outcome>>
other_vars == <<other, o_before, o_inserted, o_foreign>>
attach_vars == <<func_productions, expansion>>
vars == <<g, pc, caller, mt_vars, returned, cls_vars, parse_vars, other_vars,
          attach_vars>>

grammar == Grammars[g]
initial == Automata[g].initial
goto    == Automata[g].goto

\* An empty dict / defaultdict.
EmptyDict == <<>>

\* A semantic value: a lexeme (at: its place in the input) or what a handler
\* returned for its arguments.
Value(func, args, at) == [func |-> func, args |-> args, at |-> at]

NoValue == Value("<none>", <<>>, 0)

\* Token(name, value, ...).
Token(name, value) == [name |-> name, value |-> value]

NoToken == Token("<none>", NoValue)

END_OF_INPUT_TOKEN == Token(END_OF_INPUT, Value("", <<>>, 0))

\* How a call of parse ended: still running, a value returned, or an
\* exception raised, with the text, tokens and states the exception carries.
Outcome(kind, exc, text, value) ==
    [kind |-> kind, exc |-> exc, text |-> text, tokens |-> {}, states |-> {},
     value |-> value]

NoOutcome == Outcome("running", "", "", NoValue)

Returned(value) == Outcome("return", "", "", value)

Raised(exc, text) == Outcome("raise", exc, text, NoValue)

\* The locals of a call of parse that has not started.
IdleCall ==
    [pc |-> "idle", raw |-> <<>>, tokens |-> <<>>, token |-> NoToken,
     stack |-> <<>>, shifted |-> <<>>, call |-> <<>>, outcome |-> NoOutcome]

\* No decorator has been applied yet.
NoExpansion ==
    [decorator |-> "<none>", nonterminal |-> "", singular |-> "",
     separator |-> "", single |-> FALSE, epsilon |-> FALSE, rules |-> <<>>]

\* ------------------------------------------------------------------------
\* attach, attach_list, attach_sep_list
\* ------------------------------------------------------------------------

\* The names the decorators are called with; each is one word.
ListNames  == {"L"}
Singulars  == {"x", "L"}
Separators == {","}

\* A rule string is modelled by its words: 'L : L x' is <<"L", ":", "L", "x">>.
\* Production(rule, func): the word before the colon is the lhs, the words
\* after it are the rhs (none: an epsilon production).
ProductionOf(rule, func) ==
    Production(rule[1], SubSeq(rule, 3, Len(rule)), func)

\* attach(rule)(func): func.productions after the call (lines 13-19).
attach(prods, rule, func) == prods \cup {ProductionOf(rule, func)}

\* "for production in productions: attach(production)(func)".
RECURSIVE AttachAll(_, _, _)
AttachAll(prods, rules, func) ==
    IF rules = <<>> THEN prods
    ELSE AttachAll(attach(prods, Head(rules), func), Tail(rules), func)

\* The list of attach_list with the recursive rule written
\* '{} : {} {}'.format(nonterminal, singular, nonterminal).
ListRules_right_recursive(nonterminal, singular, single, epsilon) ==
    <<  <<nonterminal, ":", singular, nonterminal>>  >>
    \o (IF single THEN << <<nonterminal, ":", singular>> >> ELSE <<>>)
    \o (IF epsilon THEN << <<nonterminal, ":">> >> ELSE <<>>)

\* The list "productions" of attach_list (lines 24-30).
ListRules(nonterminal, singular, single, epsilon) ==
    <<  <<nonterminal, ":", nonterminal, singular>>  >>
    \o (IF single THEN << <<nonterminal, ":", singular>> >> ELSE <<>>)
    \o (IF epsilon THEN << <<nonterminal, ":">> >> ELSE <<>>)

\* '{}_inner'.format(nonterminal) (line 40).
InnerNonterminal(nonterminal) == nonterminal \o "_inner"

\* The list "productions" of attach_sep_list (lines 40-48).
SepListRules(nonterminal, singular, separator, epsilon) ==
    LET inner_nonterminal == InnerNonterminal(nonterminal)
    IN  <<  <<nonterminal, ":", inner_nonterminal>>,
            <<inner_nonterminal, ":", inner_nonterminal, separator, singular>>,
            <<inner_nonterminal, ":", singular>>  >>
        \o (IF epsilon THEN << <<nonterminal, ":">> >> ELSE <<>>)

\* The only handler function that is decorated.
Handler == "f_list"

\* @attach_list(nonterminal, singular, single, epsilon) applied to the
\* handler while the class body runs (lines 22-35).
AttachList ==
    /\ pc = "body"
    /\ \E nonterminal \in ListNames, singular \in Singulars,
          single \in BOOLEAN, epsilon \in BOOLEAN :
          LET rules == ListRules(nonterminal, singular, single, epsilon)
          IN  /\ func_productions' = AttachAll(func_productions, rules, Handler)
              /\ expansion' = [decorator |-> "attach_list",
                               nonterminal |-> nonterminal,
                               singular |-> singular, separator |-> "",
                               single |-> single, epsilon |-> epsilon,
                               rules |-> rules]
    /\ UNCHANGED <<other_vars, g, pc, caller, mt_vars, returned, cls_vars,
                   parse_vars>>

\* @attach_sep_list(nonterminal, singular, separator, epsilon) applied to the
\* handler while the class body runs (lines 38-53).
AttachSepList ==
    /\ pc = "body"
    /\ \E nonterminal \in ListNames, singular \in Singulars,
          separator \in Separators, epsilon \in BOOLEAN :
          LET rules == SepListRules(nonterminal, singular, separator, epsilon)
          IN  /\ func_productions' = AttachAll(func_productions, rules, Handler)
              /\ expansion' = [decorator |-> "attach_sep_list",
                               nonterminal |-> nonterminal,
                               singular |-> singular,
                               separator |-> separator,
                               single |-> FALSE, epsilon |-> epsilon,
                               rules |-> rules]
    /\ UNCHANGED <<other_vars, g, pc, caller, mt_vars, returned, cls_vars,
                   parse_vars>>

\* ------------------------------------------------------------------------
\* ParserBase.__new__
\* ------------------------------------------------------------------------

\* What __new__ reads of the namespace dct of a class body: whether it binds
\* LEXER and START, the token names of the lexer, the productions of its
\* decorated functions, and the start symbol.
Body(has_LEXER, has_START, terminals, productions, start) ==
    [has_LEXER |-> has_LEXER, has_START |-> has_START,
     terminals |-> terminals, productions |-> productions, START |-> start]

\* The class body that declares a grammar.
BodyOf(gr) == Body(TRUE, TRUE, gr.terminals, gr.productions, gr.start.rhs[1])

\* Class bodies whose declaration fails: START is not bound in the body;
\* LEXER is not bound in the body; no production for the start symbol (the
\* body of a class without any decorated function); a rhs symbol that is
\* neither a terminal nor the lhs of a production.
BadDeclarations ==
    <<Body(TRUE, FALSE, {"a"}, {Production("S", <<"a">>, "f_S")}, "<missing>"),
      Body(FALSE, TRUE, {}, {Production("S", <<"a">>, "f_S")}, "S"),
      Body(TRUE, TRUE, {"a"}, {}, "S"),
      Body(TRUE, TRUE, {"a"}, {Production("S", <<"A", "a">>, "f_S")}, "S")>>

\* The class bodies declared: one per grammar, then the failing ones.
Declarations == [i \in DOMAIN Grammars |-> BodyOf(Grammars[i])] \o BadDeclarations

\* Grammar(...) accepts the arguments: the start symbol has a production and
\* every rhs symbol is a terminal or the lhs of a production.
GrammarValid(terminals, productions, start) ==
    /\ \E p \in productions : p.lhs = start
    /\ \A p \in productions : \A i \in DOMAIN p.rhs :
          p.rhs[i] \in terminals \cup {q.lhs : q \in productions}

\* Lines 64-68 raise nothing: dct['LEXER'] and dct['START'] are bound and
\* Grammar(...) accepts its arguments.
Declarable(body) ==
    /\ body.has_LEXER
    /\ body.has_START
    /\ GrammarValid(body.terminals, body.productions, body.START)

\* __new__ that catches the exception of lines 64-68 and creates the class
\* from the body as it stands.
NewOutcome_error_swallowed(body) ==
    IF Declarable(body) THEN "make_tables" ELSE "defined"

\* Where __new__ is after lines 59-68: in make_tables (line 69), or left by
\* the KeyError of dct[...] or the GrammarError of Grammar(...).
NewOutcome(body) ==
    IF Declarable(body) THEN "make_tables" ELSE "failed"

\* ParserBase.__new__ up to the call of make_tables (lines 58-69, 87-97).
New ==
    /\ pc = "__new__"
    /\ pc' = NewOutcome(Declarations[g])
    /\ todo' = IF NewOutcome(Declarations[g]) = "make_tables"
               THEN Automata[g].closures ELSE {}
    /\ UNCHANGED <<other_vars, attach_vars, g, caller, labels, mt_ACTION,
                   mt_GOTO, writes, returned, cls_vars, parse_vars>>

\* ------------------------------------------------------------------------
\* ParserBase.make_tables
\* ------------------------------------------------------------------------

\* d[key] = value on a dict.
SetItem(d, key, value) ==
    [k \in DOMAIN d \cup {key} |-> IF k = key THEN value ELSE d[k]]

\* table[label].setdefault(symbol, value): an entry once stored is kept.
Store_keep_first(table, label, symbol, value) ==
    IF label \in DOMAIN table /\ symbol \in DOMAIN table[label]
    THEN table
    ELSE SetItem(table, label,
                 SetItem(IF label \in DOMAIN table THEN table[label]
                         ELSE EmptyDict,
                         symbol, value))

\* table[label][symbol] = value on a defaultdict(dict): a missing row is
\* created empty by the lookup table[label] before the store.
Store(table, label, symbol, value) ==
    SetItem(table, label,
            SetItem(IF label \in DOMAIN table THEN table[label] ELSE EmptyDict,
                    symbol, value))

\* get_label that numbers the closures from 1.
get_label_one_based(lbls, closure) ==
    IF closure \notin DOMAIN lbls
    THEN SetItem(lbls, closure, Cardinality(DOMAIN lbls) + 1)
    ELSE lbls

\* get_label: the labels after the call; the label returned is
\* get_label(lbls, closure)[closure].
get_label(lbls, closure) ==
    IF closure \notin DOMAIN lbls
    THEN SetItem(lbls, closure, Cardinality(DOMAIN lbls))
    ELSE lbls

\* All the orders in which the elements of a set may be iterated.
RECURSIVE Orderings(_)
Orderings(S) ==
    IF S = {} THEN {<<>>}
    ELSE UNION {{<<x>> \o s : s \in Orderings(S \ {x})} : x \in S}

\* The body of "for rule in closure" without the accept branch: a finished
\* augmenting rule stores a reduce.
RuleStep_accept_as_reduce(st, closure, label, rule) ==
    IF ~at_end(rule)
    THEN LET symbol      == SymbolAtDot(rule)
             is_terminal == symbol \in grammar.terminals
             has_goto    == symbol \in DOMAIN goto[closure]
         IN  IF is_terminal /\ has_goto
             THEN LET lbls == get_label(st.labels, goto[closure][symbol])
                  IN  [labels |-> lbls,
                       table  |-> Store(st.table, label, symbol,
                                        <<"shift", lbls[goto[closure][symbol]]>>),
                       writes |-> Append(st.writes, rule)]
             ELSE st
    ELSE [st EXCEPT !.table = Store(@, label, rule.lookahead,
                                     <<"reduce", rule.production>>),
                    !.writes = Append(@, rule)]

\* The body of "for rule in closure" (lines 102-113) for one rule;
\* st = [labels, table, writes].
RuleStep(st, closure, label, rule) ==
    IF ~at_end(rule)
    THEN LET symbol      == SymbolAtDot(rule)
             is_terminal == symbol \in grammar.terminals
             has_goto    == symbol \in DOMAIN goto[closure]
         IN  IF is_terminal /\ has_goto
             THEN LET lbls == get_label(st.labels, goto[closure][symbol])
                  IN  [labels |-> lbls,
                       table  |-> Store(st.table, label, symbol,
                                        <<"shift", lbls[goto[closure][symbol]]>>),
                       writes |-> Append(st.writes, rule)]
             ELSE st
    ELSE IF rule.production = grammar.start /\ at_end(rule)
    THEN [st EXCEPT !.table = Store(@, label, rule.lookahead, <<"accept">>),
                    !.writes = Append(@, rule)]
    ELSE [st EXCEPT !.table = Store(@, label, rule.lookahead,
                                     <<"reduce", rule.production>>),
                    !.writes = Append(@, rule)]

\* "for rule in closure" over the rules in the order the set yields them.
RECURSIVE RuleLoop(_, _, _, _)
RuleLoop(st, closure, label, order) ==
    IF order = <<>> THEN st
    ELSE RuleLoop(RuleStep(st, closure, label, Head(order)),
                  closure, label, Tail(order))

\* "for symbol in grammar.nonterminals" that stores the label of the closure
\* itself instead of the label of the goto target.
RECURSIVE NonterminalLoop_stores_own_label(_, _, _, _)
NonterminalLoop_stores_own_label(st, closure, label, order) ==
    IF order = <<>> THEN st
    ELSE LET symbol == Head(order)
             st2 == IF symbol \in DOMAIN goto[closure]
                    THEN LET lbls == get_label(st.labels, goto[closure][symbol])
                         IN  [labels |-> lbls,
                              table  |-> Store(st.table, label, symbol, label)]
                    ELSE st
         IN  NonterminalLoop_stores_own_label(st2, closure, label, Tail(order))

\* "for symbol in grammar.nonterminals" (lines 115-117); st = [labels, table].
RECURSIVE NonterminalLoop(_, _, _, _)
NonterminalLoop(st, closure, label, order) ==
    IF order = <<>> THEN st
    ELSE LET symbol == Head(order)
             st2 == IF symbol \in DOMAIN goto[closure]
                    THEN LET lbls == get_label(st.labels, goto[closure][symbol])
                         IN  [labels |-> lbls,
                              table  |-> Store(st.table, label, symbol,
                                               lbls[goto[closure][symbol]])]
                    ELSE st
         IN  NonterminalLoop(st2, closure, label, Tail(order))

\* One iteration of "for closure in closures" (lines 98-117).
ProcessClosure ==
    /\ pc = "make_tables"
    /\ \E closure \in todo :
       \E rules \in Orderings(closure) :
       \E syms \in Orderings(grammar.nonterminals) :
          LET lbls0 == get_label(labels, closure)
              label == lbls0[closure]
              st1   == RuleLoop([labels |-> lbls0, table |-> mt_ACTION,
                                 writes |-> <<>>],
                                closure, label, rules)
              st2   == NonterminalLoop([labels |-> st1.labels, table |-> mt_GOTO],
                                       closure, label, syms)
          IN  /\ labels'    = st2.labels
              /\ mt_ACTION' = st1.table
              /\ mt_GOTO'   = st2.table
              /\ writes'    = SetItem(writes, label, st1.writes)
              /\ todo'      = todo \ {closure}
    /\ UNCHANGED <<other_vars, attach_vars, g, pc, caller, returned, cls_vars, parse_vars>>

\* The tuple make_tables returns (line 119).
Result ==
    LET lbls == get_label(labels, initial)
    IN  <<lbls[initial], mt_ACTION, mt_GOTO>>

\* make_tables returns (line 119); when ParserBase.__new__ called it, the
\* class is created with the tables as attributes (lines 69-76).
Return ==
    /\ pc = "make_tables"
    /\ todo = {}
    /\ returned' = Append(returned, Result)
    /\ IF caller = "__new__"
       THEN /\ cls_INITIAL_STATE' = Result[1]
            /\ cls_ACTION' = Result[2]
            /\ cls_GOTO' = Result[3]
       ELSE UNCHANGED cls_vars
    /\ pc' = "defined"
    /\ labels' = EmptyDict /\ mt_ACTION' = EmptyDict /\ mt_GOTO' = EmptyDict
    /\ writes' = EmptyDict
    /\ UNCHANGED <<other_vars, attach_vars, g, caller, todo, parse_vars>>

\* A second call of the static method on the grammar of the class.
Recompile ==
    /\ pc = "defined"
    /\ Len(returned) = 1
    /\ pc' = "make_tables"
    /\ caller' = "direct"
    /\ todo' = Automata[g].closures
    /\ UNCHANGED <<other_vars, attach_vars, g, labels, mt_ACTION, mt_GOTO, writes, returned, cls_vars,
                   parse_vars>>

\* ------------------------------------------------------------------------
\* Parser.parse
\* ------------------------------------------------------------------------

\* The token sequences a lexer over the terminals of the grammar may yield:
\* the i-th token carries the i-th lexeme.
Inputs ==
    UNION {{[i \in 1..n |-> Token(names[i], Value("<lexeme>", <<>>, i))] :
                names \in [1..n -> grammar.terminals]} : n \in 0..MaxLen}

\* production.func(self, *args): the handlers are free constructors.
Apply(func, args) == Value(func, args, 0)

\* len(production).
len(production) == Len(production.rhs)

\* seq[-n:] collected from the top of the stack downwards.
LastN_top_first(seq, n) ==
    LET m == IF n >= Len(seq) THEN Len(seq) ELSE n
    IN  [i \in 1..m |-> seq[Len(seq) - i + 1]]

\* seq[-n:] for n > 0.
LastN(seq, n) ==
    IF n >= Len(seq) THEN seq ELSE SubSeq(seq, Len(seq) - n + 1, Len(seq))

\* del seq[-n+1:]: one frame too few is removed.
DelLastN_one_less(seq, n) ==
    IF n - 1 >= Len(seq) THEN <<>> ELSE SubSeq(seq, 1, Len(seq) - (n - 1))

\* del seq[-n-1:]: one frame too many is removed.
DelLastN_one_more(seq, n) ==
    IF n + 1 >= Len(seq) THEN <<>> ELSE SubSeq(seq, 1, Len(seq) - (n + 1))

\* seq after del seq[-n:] for n > 0.
DelLastN(seq, n) ==
    IF n >= Len(seq) THEN <<>> ELSE SubSeq(seq, 1, Len(seq) - n)

\* next(it) that yields the item and leaves it in the iterator.
IterNext_peek(it) == [item |-> Head(it), rest |-> it]

\* next(it) that drops the item after the one it yields.
IterNext_skip(it) ==
    [item |-> Head(it), rest |-> IF Len(it) > 2 THEN Tail(Tail(it)) ELSE Tail(it)]

\* next(it) on an iterator that is not exhausted: the item yielded and what
\* the iterator still holds.
IterNext(it) == [item |-> Head(it), rest |-> Tail(it)]

\* The test of "while stack" after a loop body, and lines 170-171.
LoopTest(stk) ==
    IF stk = <<>> THEN Raised("Exception", "ran out of input") ELSE NoOutcome

\* table[state] on a defaultdict(dict): a missing row is inserted, empty.
Touch(table, state) ==
    IF state \in DOMAIN table THEN table ELSE SetItem(table, state, EmptyDict)

\* self.ACTION[state][token.name] is defined.
HasAction(state, name) ==
    /\ state \in DOMAIN cls_ACTION
    /\ name \in DOMAIN cls_ACTION[state]

TopState == stack[Len(stack)][1]

\* itertools.chain(lexer, []): the end-of-input token is left out.
Chain_no_sentinel(input) == input

\* itertools.chain(lexer, [END_OF_INPUT_TOKEN]) (line 135).
Chain(input) == input \o <<END_OF_INPUT_TOKEN>>

\* The sentinel frame (line 136).
Sentinel == <<cls_INITIAL_STATE, "<initial>", Value("<begin>", <<>>, 0)>>

\* parse(raw) up to the first test of the loop (lines 134-138); next(tokens)
\* raises StopIteration on an exhausted iterator.
ParseCall ==
    /\ pc \in {"defined", "done"}
    /\ \E input \in Inputs :
          /\ raw' = input
          /\ IF Chain(input) = <<>>
             THEN /\ token' = NoToken
                  /\ tokens' = <<>>
                  /\ outcome' = Raised("StopIteration", "")
                  /\ pc' = "done"
             ELSE /\ token' = IterNext(Chain(input)).item
                  /\ tokens' = IterNext(Chain(input)).rest
                  /\ outcome' = NoOutcome
                  /\ pc' = "parse"
    /\ stack' = <<Sentinel>>
    /\ shifted' = <<>>
    /\ call' = <<>>
    /\ UNCHANGED <<other_vars, attach_vars, g, caller, mt_vars, returned, cls_vars>>

\* Line 141 raises KeyError: no row for the state, or no entry for the name.
ActionMissing ==
    /\ pc = "parse"
    /\ ~HasAction(TopState, token.name)
    /\ cls_ACTION' = Touch(cls_ACTION, TopState)
    /\ outcome' = Raised("KeyError", token.name)
    /\ pc' = "done"
    /\ UNCHANGED <<other_vars, attach_vars, g, caller, mt_vars, returned, cls_INITIAL_STATE, cls_GOTO,
                   raw, tokens, token, stack, shifted, call>>

\* The reduce that pushes the state it found under the popped frames
\* instead of the GOTO target.
ReduceStep_pushes_prev_state(stk, table, production) ==
    LET k      == len(production)
        args   == IF k # 0 THEN [i \in 1..Len(LastN(stk, k)) |->
                                    LastN(stk, k)[i][3]]
                  ELSE <<>>
        popped == IF k # 0 THEN DelLastN(stk, k) ELSE stk
        prev_state == popped[Len(popped)][1]
        pushed == Append(popped, <<prev_state, production.lhs,
                                   Apply(production.func, args)>>)
    IN  [stack |-> pushed, table |-> table,
         calls |-> <<[func |-> production.func, args |-> args]>>,
         outcome |-> LoopTest(pushed)]

\* What a reduce by production does to the stack (lines 144-159):
\* the stack, GOTO table, handler call and outcome after the step.
ReduceStep(stk, table, production) ==
    LET k      == len(production)
        args   == IF k # 0 THEN [i \in 1..Len(LastN(stk, k)) |->
                                    LastN(stk, k)[i][3]]
                  ELSE <<>>
        popped == IF k # 0 THEN DelLastN(stk, k) ELSE stk
    IN  IF popped = <<>>
        THEN [stack |-> popped, table |-> table, calls |-> <<>>,
              outcome |-> Raised("IndexError", "list index out of range")]
        ELSE LET prev_state == popped[Len(popped)][1]
             IN  IF prev_state \notin DOMAIN table
                    \/ production.lhs \notin DOMAIN table[prev_state]
                 THEN [stack |-> popped, table |-> Touch(table, prev_state),
                       calls |-> <<>>,
                       outcome |-> Raised("KeyError", production.lhs)]
                 ELSE LET new_state == table[prev_state][production.lhs]
                          pushed == Append(popped,
                                      <<new_state, production.lhs,
                                        Apply(production.func, args)>>)
                      IN  [stack |-> pushed, table |-> table,
                           calls |-> <<[func |-> production.func,
                                        args |-> args]>>,
                           outcome |-> LoopTest(pushed)]

\* The reduce branch of the loop (lines 143-159).
Reduce ==
    /\ pc = "parse"
    /\ HasAction(TopState, token.name)
    /\ LET action == cls_ACTION[TopState][token.name]
       IN  /\ action[1] = "reduce"
           /\ LET r == ReduceStep(stack, cls_GOTO, action[2])
              IN  /\ stack' = r.stack
                  /\ cls_GOTO' = r.table
                  /\ call' = call \o r.calls
                  /\ outcome' = r.outcome
                  /\ pc' = IF r.outcome = NoOutcome THEN "parse" ELSE "done"
    /\ UNCHANGED <<other_vars, attach_vars, g, caller, mt_vars, returned, cls_INITIAL_STATE, cls_ACTION,
                   raw, tokens, token, shifted>>

\* The shift branch of the loop (lines 160-162); next(tokens) raises
\* StopIteration on an exhausted iterator.
Shift ==
    /\ pc = "parse"
    /\ HasAction(TopState, token.name)
    /\ LET action == cls_ACTION[TopState][token.name]
       IN  /\ action[1] = "shift"
           /\ stack' = Append(stack, <<action[2], token.name, token.value>>)
           /\ shifted' = Append(shifted, token)
    /\ IF tokens = <<>>
       THEN /\ outcome' = Raised("StopIteration", "")
            /\ pc' = "done"
            /\ UNCHANGED <<token, tokens>>
       ELSE /\ token' = IterNext(tokens).item
            /\ tokens' = IterNext(tokens).rest
            /\ outcome' = NoOutcome
            /\ pc' = "parse"
    /\ UNCHANGED <<other_vars, attach_vars, g, caller, mt_vars, returned, cls_vars, raw, call>>

\* The accept branch with the sentinel frame left out of the count.
AcceptOutcome_sentinel_uncounted(stk) ==
    IF Len(stk) = 1
    THEN Returned(stk[Len(stk)][3])
    ELSE Raised("Exception", "unparsed input remaining")

\* The accept branch without its return and raise: the loop goes on.
AcceptOutcome_no_return(stk) == NoOutcome

\* What the accept branch does with the stack (lines 164-168).
AcceptOutcome(stk) ==
    IF Len(stk) = 2
    THEN Returned(stk[Len(stk)][3])
    ELSE Raised("Exception", "unparsed input remaining")

\* The accept branch of the loop (lines 163-168).
Accept ==
    /\ pc = "parse"
    /\ HasAction(TopState, token.name)
    /\ cls_ACTION[TopState][token.name][1] = "accept"
    /\ outcome' = AcceptOutcome(stack)
    /\ pc' = IF AcceptOutcome(stack) = NoOutcome THEN "parse" ELSE "done"
    /\ UNCHANGED <<other_vars, attach_vars, g, caller, mt_vars, returned, cls_vars, raw, tokens, token,
                   stack, shifted, call>>

\* ------------------------------------------------------------------------
\* A second call of Parser.parse, in another thread
\* ------------------------------------------------------------------------

\* The locals of a call of parse after lines 134-138.
StartCall(input) ==
    IF Chain(input) = <<>>
    THEN [pc |-> "done", raw |-> input, tokens |-> <<>>, token |-> NoToken,
          stack |-> <<Sentinel>>, shifted |-> <<>>, call |-> <<>>,
          outcome |-> Raised("StopIteration", "")]
    ELSE [pc |-> "parse", raw |-> input,
          tokens |-> IterNext(Chain(input)).rest,
          token |-> IterNext(Chain(input)).item,
          stack |-> <<Sentinel>>, shifted |-> <<>>, call |-> <<>>,
          outcome |-> NoOutcome]

\* One iteration of the loop of parse (lines 139-168) on the locals loc and
\* the tables A and G of the class: the locals and tables after it, and the
\* rows of the tables its lookups have read.
LoopStep(loc, A, G) ==
    LET state == loc.stack[Len(loc.stack)][1]
        name  == loc.token.name
        ended(o) == IF o = NoOutcome THEN "parse" ELSE "done"
    IN  IF state \notin DOMAIN A \/ name \notin DOMAIN A[state]
        THEN [loc |-> [loc EXCEPT !.outcome = Raised("KeyError", name),
                                  !.pc = "done"],
              A |-> Touch(A, state), G |-> G,
              read |-> {<<"ACTION", state>>}]
        ELSE LET action == A[state][name]
             IN  IF action[1] = "reduce"
                 THEN LET r == ReduceStep(loc.stack, G, action[2])
                      IN  [loc |-> [loc EXCEPT !.stack = r.stack,
                                               !.call = @ \o r.calls,
                                               !.outcome = r.outcome,
                                               !.pc = ended(r.outcome)],
                           A |-> A, G |-> r.table,
                           read |-> {<<"ACTION", state>>} \cup
                                    (IF r.stack = <<>> THEN {}
                                     ELSE {<<"GOTO",
                                             (IF r.calls = <<>>
                                              THEN r.stack[Len(r.stack)][1]
                                              ELSE r.stack[Len(r.stack) - 1][1])>>})]
                 ELSE IF action[1] = "shift"
                 THEN LET pushed == Append(loc.stack,
                                      <<action[2], name, loc.token.value>>)
                      IN  [loc |-> IF loc.tokens = <<>>
                                   THEN [loc EXCEPT
                                           !.stack = pushed,
                                           !.shifted = Append(@, loc.token),
                                           !.outcome = Raised("StopIteration", ""),
                                           !.pc = "done"]
                                   ELSE [loc EXCEPT
                                           !.stack = pushed,
                                           !.shifted = Append(@, loc.token),
                                           !.token = IterNext(loc.tokens).item,
                                           !.tokens = IterNext(loc.tokens).rest],
                           A |-> A, G |-> G, read |-> {<<"ACTION", state>>}]
                 ELSE [loc |-> [loc EXCEPT
                                  !.outcome = AcceptOutcome(loc.stack),
                                  !.pc = ended(AcceptOutcome(loc.stack))],
                       A |-> A, G |-> G, read |-> {<<"ACTION", state>>}]

\* The rows of the tables of the class.
Rows(A, G) ==
    {<<"ACTION", l>> : l \in DOMAIN A} \cup {<<"GOTO", l>> : l \in DOMAIN G}

\* The second thread calls parse on the class (lines 134-138).
OtherCall ==
    /\ pc \in {"defined", "parse", "done"}
    /\ other.pc \in {"idle", "done"}
    /\ \E input \in Inputs : other' = StartCall(input)
    /\ o_before' = Rows(cls_ACTION, cls_GOTO)
    /\ o_inserted' = {}
    /\ o_foreign' = {}
    /\ UNCHANGED <<attach_vars, g, pc, caller, mt_vars, returned, cls_vars,
                   parse_vars>>

\* The second thread runs one iteration of the loop (lines 139-168).
OtherStep ==
    /\ other.pc = "parse"
    /\ LET r       == LoopStep(other, cls_ACTION, cls_GOTO)
           present == Rows(cls_ACTION, cls_GOTO)
       IN  /\ other' = r.loc
           /\ cls_ACTION' = r.A
           /\ cls_GOTO' = r.G
           /\ o_inserted' = o_inserted \cup (Rows(r.A, r.G) \ present)
           /\ o_foreign' = o_foreign \cup
                  {row \in r.read \cap present :
                       row \notin o_before /\ row \notin o_inserted}
    /\ UNCHANGED <<o_before, attach_vars, g, pc, caller, mt_vars, returned,
                   cls_INITIAL_STATE, parse_vars>>

\* ------------------------------------------------------------------------
\* Specifications.
\* ------------------------------------------------------------------------

\* A parser class is being declared: ParserBase.__new__ has built the grammar
\* and calls make_tables (lines 58-69, 87-97); the class attributes still
\* hold the values of the class body (lines 128-130).
Init ==
    /\ g \in DOMAIN Grammars
    /\ pc = "make_tables"
    /\ caller = "__new__"
    /\ labels = EmptyDict /\ mt_ACTION = EmptyDict /\ mt_GOTO = EmptyDict
    /\ todo = Automata[g].closures
    /\ writes = EmptyDict
    /\ returned = <<>>
    /\ cls_INITIAL_STATE = 0 /\ cls_ACTION = EmptyDict /\ cls_GOTO = EmptyDict
    /\ raw = <<>> /\ tokens = <<>> /\ token = NoToken /\ stack = <<>>
    /\ shifted = <<>> /\ call = <<>> /\ outcome = NoOutcome
    /\ other = IdleCall /\ o_before = {}
    /\ o_inserted = {} /\ o_foreign = {}
    /\ func_productions = {} /\ expansion = NoExpansion

Next ==
    \/ ProcessClosure \/ Return
    \/ ParseCall \/ ActionMissing \/ Reduce \/ Shift \/ Accept

Spec == Init /\ [][Next]_vars

\* One iteration of the loop of parse (lines 139-168).
ParseLoop == ActionMissing \/ Reduce \/ Shift \/ Accept

\* A call of parse that has started keeps running: the loop is sequential
\* code with no suspension point.
SpecLive == Spec /\ WF_vars(ParseLoop)

\* The same grammar compiled twice, for the grammars with a small automaton.
TwiceGrammars == {2, 4}

InitTwice == Init /\ g \in TwiceGrammars

NextTwice == ProcessClosure \/ Return \/ Recompile

SpecTwice == InitTwice /\ [][NextTwice]_vars

\* A class body is being executed: nothing has been compiled or called, and
\* the handler function carries no production yet.
InitBody ==
    /\ g = 1
    /\ pc = "body"
    /\ caller = "__new__"
    /\ labels = EmptyDict /\ mt_ACTION = EmptyDict /\ mt_GOTO = EmptyDict
    /\ todo = {}
    /\ writes = EmptyDict
    /\ returned = <<>>
    /\ cls_INITIAL_STATE = 0 /\ cls_ACTION = EmptyDict /\ cls_GOTO = EmptyDict
    /\ raw = <<>> /\ tokens = <<>> /\ token = NoToken /\ stack = <<>>
    /\ shifted = <<>> /\ call = <<>> /\ outcome = NoOutcome
    /\ other = IdleCall /\ o_before = {}
    /\ o_inserted = {} /\ o_foreign = {}
    /\ func_productions = {} /\ expansion = NoExpansion

\* The metaclass is called with a class body: nothing is compiled yet.
InitDeclare ==
    /\ g \in DOMAIN Declarations
    /\ pc = "__new__"
    /\ caller = "__new__"
    /\ labels = EmptyDict /\ mt_ACTION = EmptyDict /\ mt_GOTO = EmptyDict
    /\ todo = {}
    /\ writes = EmptyDict
    /\ returned = <<>>
    /\ cls_INITIAL_STATE = 0 /\ cls_ACTION = EmptyDict /\ cls_GOTO = EmptyDict
    /\ raw = <<>> /\ tokens = <<>> /\ token = NoToken /\ stack = <<>>
    /\ shifted = <<>> /\ call = <<>> /\ outcome = NoOutcome
    /\ other = IdleCall /\ o_before = {}
    /\ o_inserted = {} /\ o_foreign = {}
    /\ func_productions = {} /\ expansion = NoExpansion

NextDeclare == New \/ Next

\* A class statement from the call of the metaclass on, and the calls of
\* parse on the class it creates.
SpecDeclare == InitDeclare /\ [][NextDeclare]_vars

\* The grammars two calls are interleaved on.
PairGrammars == {1, 2, 4}

InitPair == Init /\ g \in PairGrammars

NextPair == Next \/ OtherCall \/ OtherStep

\* Two threads call parse on the same class; every iteration of the loop is
\* one step, and the steps of the two calls interleave in any order.
SpecPair == InitPair /\ [][NextPair]_vars

NextAttach == AttachList \/ AttachSepList

\* The decorators of a class body, applied to one handler in any number and
\* order.
SpecAttach == InitBody /\ [][NextAttach]_vars

\* ------------------------------------------------------------------------
\* Properties.
\* ------------------------------------------------------------------------

\* The loop of parse is about to take the branch of the given kind.
AtAction(kind) ==
    /\ pc = "parse"
    /\ HasAction(TopState, token.name)
    /\ cls_ACTION[TopState][token.name][1] = kind

\* The production of the reduce the loop is about to perform.
ReduceProduction == cls_ACTION[TopState][token.name][2]

\* C1: a reduce by a production of arity k (k = 0 included) pops exactly the
\* top k frames and pushes exactly one frame, whose state is GOTO[S2][lhs] for
\* the state S2 on top after the pop and whose symbol is lhs; the depth of the
\* stack changes by 1 - k.
C1_ReducePopsKPushesOne ==
    [][AtAction("reduce") =>
         LET P    == ReduceProduction
             k    == Len(P.rhs)
             kept == SubSeq(stack, 1, Len(stack) - k)
             S2   == kept[Len(kept)][1]
         IN  /\ Len(stack) - k >= 1
             /\ Len(stack') = Len(stack) + 1 - k
             /\ SubSeq(stack', 1, Len(stack') - 1) = kept
             /\ stack'[Len(stack')][1] = cls_GOTO[S2][P.lhs]
             /\ stack'[Len(stack')][2] = P.lhs]_vars

\* A parse has reduced an epsilon production and then a production of arity
\* two, whose frame is on top of the stack.
C1_Witness ==
    /\ pc = "parse"
    /\ Len(call) = 2
    /\ Len(call[1].args) = 0
    /\ Len(call[2].args) = 2
    /\ Len(stack) = 2
    /\ stack[2][2] = "S"

\* C2: a reduce invokes the handler of the production with exactly k
\* arguments, the semantic values of the k popped frames from the bottom-most
\* to the top-most; an epsilon production gets no argument.
C2_HandlerArguments ==
    [][AtAction("reduce") =>
         LET P == ReduceProduction
             k == Len(P.rhs)
         IN  /\ call' = Append(call,
                    [func |-> P.func,
                     args |-> [i \in 1..k |-> stack[Len(stack) - k + i][3]]])
             /\ stack'[Len(stack')][3] = Apply(P.func, call'[Len(call')].args)
             /\ (k = 0 => call'[Len(call')].args = <<>>)]_vars

\* A handler has been called with two different arguments, the value of a
\* reduced nonterminal and then a lexeme, after a handler called with none.
C2_Witness ==
    /\ Len(call) >= 2
    /\ call[1].args = <<>>
    /\ LET c == call[Len(call)]
       IN  /\ Len(c.args) = 2
           /\ c.args[1].func = "f_empty"
           /\ c.args[2].func = "<lexeme>"

\* The number of tokens the iterator has yielded so far.
Cursor == Len(raw) + 1 - Len(tokens)

\* C3: a shift pushes (S', T.name, T.value) and moves the cursor by exactly one
\* token; a reduce leaves the cursor and the lookahead as they are; no step of
\* the loop moves the cursor by more than one token or backwards.
C3_CursorMoves ==
    [][pc = "parse" =>
         /\ (AtAction("shift") =>
               /\ stack' = Append(stack,
                     <<cls_ACTION[TopState][token.name][2], token.name,
                       token.value>>)
               /\ Cursor' = Cursor + 1
               /\ token' = (raw \o <<END_OF_INPUT_TOKEN>>)[Cursor + 1])
         /\ (AtAction("reduce") => token' = token /\ Cursor' = Cursor)
         /\ Cursor' \in {Cursor, Cursor + 1}
         /\ raw' = raw]_vars

\* A shift has pushed the second token of the input after a reduce.
C3_Witness ==
    /\ pc = "parse"
    /\ Len(call) >= 1
    /\ Len(shifted) = 2
    /\ stack[Len(stack)][2] = raw[2].name
    /\ stack[Len(stack)][3] = raw[2].value
    /\ Cursor = 3

\* C4: a parse that returns a value has shifted every token of the lexer
\* exactly once and in input order, and the end-of-input token is the
\* lookahead at the accept and was yielded exactly once (the iterator is
\* exhausted and the end-of-input token was never shifted).
C4_FullConsumption ==
    outcome.kind = "return" =>
        /\ shifted = raw
        /\ token = END_OF_INPUT_TOKEN
        /\ tokens = <<>>
        /\ Cursor = Len(raw) + 1

\* A parse of two tokens has returned a value.
C4_Witness ==
    /\ outcome.kind = "return"
    /\ Len(raw) = 2
    /\ shifted = raw

C6_UnexpectedTokenCarries ==
    (pc = "done" /\ ~HasAction(TopState, token.name)) =>
        /\ outcome.kind = "raise"
        /\ token \in outcome.tokens
        /\ TopState \in outcome.states

\* C7: the initial-state id make_tables returns is 0, whatever the order in
\* which the closures are iterated.
C7_InitialStateIsZero ==
    \A i \in DOMAIN returned : returned[i][1] = 0

\* C8: two runs of make_tables on the same grammar return the same
\* initial-state id, the same ACTION table and the same GOTO table.
C8_SameTablesTwice ==
    Len(returned) = 2 => returned[1] = returned[2]

\* The closure a label was given to.
ClosureOf(label) == CHOOSE c \in DOMAIN labels : labels[c] = label

\* The slot of ACTION[label] a rule stores to.
SlotOf(rule) == IF at_end(rule) THEN rule.lookahead ELSE SymbolAtDot(rule)

\* The action a rule of closure stands for, under the labels given so far.
ActionOf(closure, rule) ==
    IF ~at_end(rule) THEN <<"shift", labels[goto[closure][SymbolAtDot(rule)]]>>
    ELSE IF rule.production = grammar.start THEN <<"accept">>
    ELSE <<"reduce", rule.production>>

\* The rules of a closure that store an action: those at end, and those whose
\* dot precedes a terminal.
Writers(closure) ==
    {r \in closure : at_end(r) \/ SymbolAtDot(r) \in grammar.terminals}

\* Two rules of the closure store different actions to the same slot.
Conflict(closure) ==
    \E r1, r2 \in Writers(closure) :
        /\ SlotOf(r1) = SlotOf(r2)
        /\ ActionOf(closure, r1) # ActionOf(closure, r2)

\* C9: every entry of the compiled ACTION table is the action of the rule
\* that was processed last among the rules of the closure that store to that
\* slot, also when they store different actions; make_tables raises nothing
\* and goes on to the next closure.
C9_LastWriteWins ==
    pc = "make_tables" =>
        \A label \in DOMAIN writes :
            LET closure == ClosureOf(label)
                log     == writes[label]
            IN  /\ {log[i] : i \in DOMAIN log} = Writers(closure)
                /\ Len(log) = Cardinality(Writers(closure))
                /\ Len(log) > 0 =>
                     /\ label \in DOMAIN mt_ACTION
                     /\ DOMAIN mt_ACTION[label] =
                            {SlotOf(log[i]) : i \in DOMAIN log}
                     /\ \A i \in DOMAIN log :
                          (\A j \in DOMAIN log :
                               j > i => SlotOf(log[j]) # SlotOf(log[i]))
                          => mt_ACTION[label][SlotOf(log[i])] =
                                 ActionOf(closure, log[i])

\* Every closure has been processed and one of them has a conflict.
C9_Witness ==
    /\ pc = "make_tables"
    /\ todo = {}
    /\ \E label \in DOMAIN writes : Conflict(ClosureOf(label))

\* C10: parse leaves the ACTION and GOTO tables of the class as make_tables
\* returned them: the same states have a row and every row has the same
\* entries.
C10_TablesUnchangedByParse ==
    pc \in {"parse", "done"} =>
        /\ DOMAIN cls_ACTION = DOMAIN returned[1][2]
        /\ \A state \in DOMAIN cls_ACTION :
               cls_ACTION[state] = returned[1][2][state]
        /\ DOMAIN cls_GOTO = DOMAIN returned[1][3]
        /\ \A state \in DOMAIN cls_GOTO :
               cls_GOTO[state] = returned[1][3][state]

C17_NeverPastEndOfInput ==
    /\ outcome.exc # "StopIteration"
    /\ AtAction("shift") => /\ tokens # <<>>
                            /\ token # END_OF_INPUT_TOKEN
    /\ pc \in {"parse", "done"} =>
          /\ Cursor \in 1..(Len(raw) + 1)
          /\ Chain(raw)[Cursor] = token
    /\ outcome.text = "ran out of input" => stack = <<>>

\* The last token of a non-empty input was shifted: the end-of-input token is
\* the lookahead, the iterator is exhausted, and the loop goes on.
C17_Witness ==
    /\ pc = "parse"
    /\ Len(raw) >= 1
    /\ shifted = raw
    /\ token = END_OF_INPUT_TOKEN
    /\ tokens = <<>>

\* C18: during and after a call of parse the stack is not empty and its
\* bottom frame is the sentinel (INITIAL_STATE, '<initial>', '<begin>'); no
\* reduce pops the sentinel.
C18_SentinelStays ==
    /\ pc \in {"parse", "done"} =>
          /\ Len(stack) >= 1
          /\ stack[1] = Sentinel
          /\ outcome.exc # "IndexError"
          /\ outcome.text # "ran out of input"
    /\ AtAction("reduce") => len(ReduceProduction) <= Len(stack) - 1

\* A reduce is about to pop every frame above the sentinel.
C18_Witness ==
    /\ AtAction("reduce")
    /\ len(ReduceProduction) >= 1
    /\ len(ReduceProduction) = Len(stack) - 1

\* C19: the states on the stack form a path of the compiled tables: a frame
\* (s, X) above a frame with state p has ACTION[p][X] = Shift(s) when X is a
\* terminal and GOTO[p][X] = s when X is a nonterminal.
C19_StackIsPath ==
    pc \in {"parse", "done"} =>
        \A i \in 2..Len(stack) :
            LET p == stack[i - 1][1]
                s == stack[i][1]
                X == stack[i][2]
            IN  \/ /\ X \in grammar.terminals
                   /\ p \in DOMAIN cls_ACTION
                   /\ X \in DOMAIN cls_ACTION[p]
                   /\ cls_ACTION[p][X] = <<"shift", s>>
                \/ /\ X \in grammar.nonterminals
                   /\ p \in DOMAIN cls_GOTO
                   /\ X \in DOMAIN cls_GOTO[p]
                   /\ cls_GOTO[p][X] = s

\* The stack holds a nonterminal frame with a terminal frame above it.
C19_Witness ==
    /\ pc = "parse"
    /\ Len(stack) >= 3
    /\ stack[Len(stack) - 1][2] \in grammar.nonterminals
    /\ stack[Len(stack)][2] \in grammar.terminals

\* The entry of ACTION[label] a rule of the log stored is still there, or a
\* rule processed after it stored its own action to the same slot.
StoredOrOverwritten(label, rule) ==
    LET closure == ClosureOf(label)
        log     == writes[label]
    IN  \E i \in DOMAIN log :
            /\ log[i] = rule
            /\ \/ mt_ACTION[label][SlotOf(rule)] = ActionOf(closure, rule)
               \/ \E j \in DOMAIN log :
                     /\ j > i
                     /\ SlotOf(log[j]) = SlotOf(rule)
                     /\ mt_ACTION[label][SlotOf(rule)] =
                            ActionOf(closure, log[j])

\* The nonterminals a closure has a goto for.
GotoNonterminals(closure) ==
    {N \in grammar.nonterminals : N \in DOMAIN goto[closure]}

\* C15: for every closure L processed, each item with the dot before a
\* terminal t for which goto(L, t) is defined stores
\* ACTION[id(L)][t] = Shift(id(goto(L, t))), each nonterminal N for which
\* goto(L, N) is defined stores GOTO[id(L)][N] = id(goto(L, N)), and GOTO has
\* no other entry.
C15_ShiftAndGotoEntries ==
    pc = "make_tables" =>
        /\ \A label \in DOMAIN writes :
              LET closure == ClosureOf(label)
              IN  /\ \A rule \in closure :
                        (/\ ~at_end(rule)
                         /\ SymbolAtDot(rule) \in grammar.terminals
                         /\ SymbolAtDot(rule) \in DOMAIN goto[closure])
                        => /\ ActionOf(closure, rule) =
                                <<"shift",
                                  labels[goto[closure][SymbolAtDot(rule)]]>>
                           /\ StoredOrOverwritten(label, rule)
                  /\ \A N \in GotoNonterminals(closure) :
                        /\ label \in DOMAIN mt_GOTO
                        /\ N \in DOMAIN mt_GOTO[label]
                        /\ mt_GOTO[label][N] = labels[goto[closure][N]]
        /\ \A label \in DOMAIN mt_GOTO :
              /\ label \in DOMAIN writes
              /\ DOMAIN mt_GOTO[label] = GotoNonterminals(ClosureOf(label))

\* A processed closure has a shift entry that is in the table and a GOTO
\* entry, and both lead to closures other than itself.
C15_Witness ==
    /\ pc = "make_tables"
    /\ \E label \in DOMAIN writes :
          /\ label \in DOMAIN mt_GOTO
          /\ label \in DOMAIN mt_ACTION
          /\ \E N \in DOMAIN mt_GOTO[label] : mt_GOTO[label][N] # label
          /\ \E t \in DOMAIN mt_ACTION[label] :
                /\ mt_ACTION[label][t][1] = "shift"
                /\ mt_ACTION[label][t][2] # label

\* C16: for every closure processed, each item at its end stores, under its
\* lookahead, Accept when its production is the augmenting production and
\* Reduce(production) otherwise; no Accept entry comes from another
\* production and no Reduce entry names the augmenting production.
C16_AcceptAndReduceEntries ==
    pc = "make_tables" =>
        \A label \in DOMAIN writes :
            LET closure == ClosureOf(label)
            IN  /\ \A rule \in closure :
                      at_end(rule) =>
                        /\ ActionOf(closure, rule) =
                              (IF rule.production = grammar.start
                               THEN <<"accept">>
                               ELSE <<"reduce", rule.production>>)
                        /\ StoredOrOverwritten(label, rule)
                /\ label \in DOMAIN mt_ACTION =>
                      \A a \in DOMAIN mt_ACTION[label] :
                          LET entry == mt_ACTION[label][a]
                          IN  /\ entry[1] = "accept" =>
                                    Item(grammar.start, 1, a) \in closure
                              /\ entry[1] = "reduce" =>
                                    /\ entry[2] # grammar.start
                                    /\ Item(entry[2], len(entry[2]), a)
                                           \in closure

\* Every closure has been processed; the table holds an Accept entry, a
\* Reduce entry of an epsilon production and one of a longer production.
C16_Witness ==
    /\ pc = "make_tables"
    /\ todo = {}
    /\ \E l1, l2, l3 \in DOMAIN mt_ACTION :
          /\ \E a \in DOMAIN mt_ACTION[l1] : mt_ACTION[l1][a] = <<"accept">>
          /\ \E a \in DOMAIN mt_ACTION[l2] :
                /\ mt_ACTION[l2][a][1] = "reduce"
                /\ len(mt_ACTION[l2][a][2]) = 0
          /\ \E a \in DOMAIN mt_ACTION[l3] :
                /\ mt_ACTION[l3][a][1] = "reduce"
                /\ len(mt_ACTION[l3][a][2]) = 2

\* The ids get_label has given out.
Ids == {labels[c] : c \in DOMAIN labels}

\* The ids a table refers to: Shift targets of ACTION, values of GOTO.
Targets(action_table, goto_table) ==
    UNION {{action_table[l][a][2] : a \in {b \in DOMAIN action_table[l] :
                                     action_table[l][b][1] = "shift"}}
           : l \in DOMAIN action_table}
    \cup UNION {{goto_table[l][N] : N \in DOMAIN goto_table[l]}
                : l \in DOMAIN goto_table}

\* The labelling is injective and dense, labels closures of the collection
\* only, and covers every id the tables and the return value refer to.
LabelsDenseAndClosed ==
    /\ pc = "make_tables" =>
          /\ \A c1, c2 \in DOMAIN labels :
                labels[c1] = labels[c2] => c1 = c2
          /\ Ids = 0..(Cardinality(DOMAIN labels) - 1)
          /\ DOMAIN labels \subseteq Automata[g].closures
          /\ DOMAIN mt_ACTION \cup DOMAIN mt_GOTO \subseteq Ids
          /\ Targets(mt_ACTION, mt_GOTO) \subseteq Ids
          /\ todo = {} =>
                /\ DOMAIN labels = Automata[g].closures
                /\ Result[1] \in Ids
    /\ \A i \in DOMAIN returned :
          LET n == Cardinality(Automata[g].closures)
          IN  /\ returned[i][1] \in 0..(n - 1)
              /\ Targets(returned[i][2], returned[i][3]) \subseteq 0..(n - 1)

\* C20: the labelling of get_label is injective and dense (the ids are
\* exactly 0..n-1), an id once given is never changed, and every Shift
\* target, GOTO target and returned initial-state id is the id of a closure
\* of the collection.
C20_LabelsInjectiveDenseStable ==
    /\ []LabelsDenseAndClosed
    /\ [][(pc = "make_tables" /\ pc' = "make_tables") =>
            \A c \in DOMAIN labels :
                /\ c \in DOMAIN labels'
                /\ labels'[c] = labels[c]]_vars

\* A closure was labelled as a goto target before its own turn in the loop,
\* and a later iteration has left its id as it was.
C20_Witness ==
    /\ pc = "make_tables"
    /\ Cardinality(DOMAIN labels) >= 3
    /\ \E c \in DOMAIN labels :
          /\ c \in todo
          /\ labels[c] < Cardinality(DOMAIN labels) - 1

\* The productions the decorator applied last has generated.
Generated ==
    {ProductionOf(expansion.rules[i], Handler) : i \in DOMAIN expansion.rules}

\* The production has its own lhs in its rhs.
Recursive(p) == \E i \in DOMAIN p.rhs : p.rhs[i] = p.lhs

\* The generated productions alone derive the empty string from the list
\* nonterminal.
AllowsEmpty ==
    expansion.nonterminal \in NullableFix([productions |-> Generated], {})

\* C14 as stated: attach_list and attach_sep_list generate right-recursive
\* productions - every recursive production generated has the list
\* nonterminal (its lhs) as its last rhs symbol - and the generated set
\* allows the empty list exactly when epsilon=True.
C14_RightRecursive ==
    expansion.decorator # "<none>" =>
        /\ \A p \in Generated :
              Recursive(p) =>
                  p.rhs[Len(p.rhs)] \in {p.lhs, expansion.nonterminal}
        /\ AllowsEmpty <=> expansion.epsilon

\* C14, amended: attach_list and attach_sep_list generate left-recursive
\* productions - there is a recursive production, every recursive production
\* generated has as lhs the list nonterminal (attach_list) or
\* '<nonterminal>_inner' (attach_sep_list), has that lhs as its first rhs
\* symbol and the element as its last - all of them are added to the
\* handler's productions, and the generated set allows the empty list
\* exactly when epsilon=True.
C14_LeftRecursive ==
    expansion.decorator # "<none>" =>
        /\ Generated \subseteq func_productions
        /\ \E p \in Generated : Recursive(p)
        /\ \A p \in Generated :
              Recursive(p) =>
                  /\ p.lhs = (IF expansion.decorator = "attach_list"
                              THEN expansion.nonterminal
                              ELSE InnerNonterminal(expansion.nonterminal))
                  /\ p.rhs[1] = p.lhs
                  /\ p.rhs[Len(p.rhs)] = expansion.singular
        /\ AllowsEmpty <=> expansion.epsilon

\* A separator list that allows the empty list was declared on a handler that
\* already carries the productions of a plain list.
C14_Witness ==
    /\ expansion.decorator = "attach_sep_list"
    /\ expansion.epsilon
    /\ expansion.singular = "x"
    /\ Production("L", <<"L", "x">>, Handler) \in func_productions
    /\ Production("L_inner", <<"L_inner", ",", "x">>, Handler)
          \in func_productions

\* type.__new__ has returned: the class exists.
ClassExists == pc \in {"defined", "parse", "done"}

\* The table of the class holds the compiled table: every compiled row, as
\* compiled, and besides only empty rows.
Carries(table, compiled) ==
    /\ \A l \in DOMAIN compiled : l \in DOMAIN table /\ table[l] = compiled[l]
    /\ \A l \in DOMAIN table \ DOMAIN compiled : table[l] = EmptyDict

\* The tables speak of the grammar of the class body: ACTION is keyed by its
\* terminals and the end of input and reduces by its productions, GOTO is
\* keyed by its nonterminals, and ACTION holds an Accept.
OfOwnGrammar(result) ==
    LET body == Declarations[g]
    IN  /\ \A l \in DOMAIN result[2] : \A a \in DOMAIN result[2][l] :
              /\ a \in body.terminals \cup {END_OF_INPUT}
              /\ result[2][l][a][1] = "reduce" =>
                    result[2][l][a][2] \in body.productions
        /\ \A l \in DOMAIN result[3] : \A N \in DOMAIN result[3][l] :
              N \in {p.lhs : p \in body.productions}
        /\ \E l \in DOMAIN result[2] : \E a \in DOMAIN result[2][l] :
              result[2][l][a] = <<"accept">>

\* No call of parse has started.
NoParseYet ==
    /\ raw = <<>> /\ tokens = <<>> /\ token = NoToken /\ stack = <<>>
    /\ shifted = <<>> /\ call = <<>> /\ outcome = NoOutcome

\* C13: when the grammar construction fails while a parser class is being
\* defined, no class is created and no table is exposed; every class that
\* exists carries the tables compiled from the grammar of its own body, and
\* they were built before any call of parse.
C13_NoClassWithoutTables ==
    /\ ~Declarable(Declarations[g]) =>
          /\ pc \in {"__new__", "failed"}
          /\ ~ClassExists
          /\ returned = <<>>
          /\ labels = EmptyDict /\ mt_ACTION = EmptyDict /\ mt_GOTO = EmptyDict
          /\ cls_ACTION = EmptyDict /\ cls_GOTO = EmptyDict
    /\ pc = "failed" => ~Declarable(Declarations[g])
    /\ ClassExists =>
          /\ Declarable(Declarations[g])
          /\ Len(returned) = 1
          /\ OfOwnGrammar(returned[1])
          /\ cls_INITIAL_STATE = returned[1][1]
          /\ Carries(cls_ACTION, returned[1][2])
          /\ Carries(cls_GOTO, returned[1][3])
          /\ pc = "defined" => /\ cls_ACTION = returned[1][2]
                               /\ cls_GOTO = returned[1][3]
    /\ ~ClassExists => NoParseYet

\* Grammar(...) was called with a body that binds LEXER and START and has
\* raised: the class statement has failed.
C13_Witness ==
    /\ pc = "failed"
    /\ Declarations[g].has_LEXER
    /\ Declarations[g].has_START
    /\ Declarations[g].productions # {}

\* The locals of the first call.
FirstCall ==
    [pc |-> pc, raw |-> raw, tokens |-> tokens, token |-> token,
     stack |-> stack, shifted |-> shifted, call |-> call, outcome |-> outcome]

\* The locals a call passes through when it runs alone from loc on the
\* tables A and G.
RECURSIVE SoloTrace(_, _, _)
SoloTrace(loc, A, G) ==
    IF loc.pc = "done" THEN {loc}
    ELSE LET r == LoopStep(loc, A, G)
         IN  {loc} \cup SoloTrace(r.loc, r.A, r.G)

\* The locals of a call of parse on input that runs alone on the tables as
\* make_tables returned them.
SoloStates(input) ==
    SoloTrace(StartCall(input), returned[1][2], returned[1][3])

\* Stack, cursor and outcome of both calls are those of a call running alone.
AsAlone ==
    /\ pc \in {"parse", "done"} => FirstCall \in SoloStates(raw)
    /\ other.pc # "idle" => other \in SoloStates(other.raw)

\* C12: for any interleaving of the steps of two calls of parse on the same
\* compiled tables, the stack, cursor and outcome of each call are the same
\* as when it runs alone, and no step of one call reads state the other call
\* has written (here: no lookup of the second call reads a row of ACTION or
\* GOTO that the first call has inserted since the second call started).
C12_CallsIsolated ==
    /\ AsAlone
    /\ o_foreign = {}

====
